---- MODULE Spec2Model ----
(***************************************************************************)
(* A model of channel.py: a message channel between OS processes that is   *)
(* kept entirely in a Redis store.  A method of Channel is a sequence of   *)
(* steps, and the steps of different processes interleave.  A step is one  *)
(* Redis write or pop, or the reads of one test: the reads of              *)
(* __checkCaller, the membership test of a destination in sendTo, the      *)
(* membership read of a receive loop and each exists of __keysExist are    *)
(* steps of their own.  join reads before its first write, but its two     *)
(* assertions never fail, so the reads and the write are one step.         *)
(*                                                                         *)
(* Redis keeps byte strings.  A value read back from the store is a byte   *)
(* string (modelled as a TLA+ string) and the code's int(..), str(..) and  *)
(* format(..) conversions are modelled by what they compute.               *)
(***************************************************************************)
EXTENDS Integers, Sequences, FiniteSets, TLC

\* ------------------------------------------------------------------------
\* Program constants (channel.py lines 9-13, hw2_q1.py line 5)
NUMDIGITS == 4
MAXPROCID == 9999
TIMEOUT == -1
ChannelID == 1

\* ------------------------------------------------------------------------
\* Bounds of the model
\* OS-level process ids (os.getpid()) and the channel-level ids that are
\* passed to join, sendTo and recvFrom
Procs == {101, 102, 103}
Ids == {1, 2, 3}

\* Spec: two processes on a channel nobody has joined; calls in total
SpecProcs == {101, 102}
SpecIds == {1, 2}
MaxOpens == 2                 \* Channel(...) after the first
MaxJoins == 2                 \* join
MaxLeaves == 1                \* leave
MaxSends == 1                 \* sendTo and sendToAll
MaxRecvs == 1                 \* recvFrom and recvFromAny

\* SpecMsg: three joined processes that send and receive; calls in total
MsgSends == 3                 \* sendTo
MsgRecvs == 2                 \* recvFrom and recvFromAny

\* SpecE2E: the values the first member sends
E2ERounds == 3

\* SpecDemo: the rounds of the demo program (range(1, 101) in the source)
DemoRounds == 2

\* SpecGone: a member leaves; sendTo and recvFrom calls in total
GoneSends == 2
GoneRecvs == 2

\* SpecLive: a receiver that keeps calling, and senders; sendTo calls in total
LiveSends == 2

\* ------------------------------------------------------------------------
\* Python conversions between integers and (byte) strings
DigitChars == <<"0", "1", "2", "3", "4", "5", "6", "7", "8", "9">>

RECURSIVE StrNat(_)
StrNat(n) == IF n < 10 THEN DigitChars[n + 1]
             ELSE StrNat(n \div 10) \o DigitChars[(n % 10) + 1]

\* str(i) of an int, and the bytes Redis stores for an int argument
StrInt(i) == IF i < 0 THEN "-" \o StrNat(-i) ELSE StrNat(i)

\* str(b) of a bytes object b: its repr, b'...'
StrBytes(b) == "b'" \o b \o "'"

RECURSIVE ZeroPad(_, _)
ZeroPad(s, w) == IF Len(s) >= w THEN s ELSE ZeroPad("0" \o s, w)

\* format(i, '04d'): at least NUMDIGITS characters, the sign included
Format(i) == IF i < 0 THEN "-" \o ZeroPad(StrNat(-i), NUMDIGITS - 1)
             ELSE ZeroPad(StrNat(i), NUMDIGITS)

DigitVal(c) == CHOOSE d \in 0..9 : DigitChars[d + 1] = c

\* The number that the digits s[i], s[i+1], ... continue acc with
RECURSIVE ParseFrom(_, _, _)
ParseFrom(s, i, acc) == IF i > Len(s) THEN acc
                        ELSE ParseFrom(s, i + 1, acc * 10 + DigitVal(SubSeq(s, i, i)))

\* int(s) of a string or bytes object of decimal digits
ParseInt(s) == IF Len(s) > 0 /\ SubSeq(s, 1, 1) = "-"
               THEN 0 - ParseFrom(s, 2, 0)
               ELSE ParseFrom(s, 1, 0)

\* i == b and i in {b, ...} for an int i and bytes b: never equal in Python 3
IntEqBytes(i, b) == FALSE

\* pickle.dumps / pickle.loads of a payload
Dumps(m) == <<"pickle", m>>
Loads(b) == b[2]

WAKEUP == "WAKEUP"

\* ------------------------------------------------------------------------
\* Key names of a channel (Channel.__init__, lines 46-49)
ChannelKeyOf(c) == "C" \o Format(c)
channelKey == ChannelKeyOf(ChannelID)
osmembersID == channelKey \o "OID"
membersID == channelKey \o "MID"
wakeOnSend == channelKey \o "WOS"
ChannelSetKey == "channelSet"

\* __procs2key and __key2procs
Procs2Key(i, j) == channelKey \o Format(i) \o Format(j)
Key2Procs(key) == << ParseInt(SubSeq(key, NUMDIGITS + 2, 2 * NUMDIGITS + 1)),
                     ParseInt(SubSeq(key, 2 * NUMDIGITS + 2, 3 * NUMDIGITS + 1)) >>

\* __procs2key and __wakeupKey of the Channel object of channel c
Procs2KeyOf(c, i, j) == ChannelKeyOf(c) \o Format(i) \o Format(j)
WakeupKeyOf(c, i) == ChannelKeyOf(c) \o "WOS" \o StrInt(i)

\* __wakeupKey(i) for an int i, and for a bytes object i as smembers returns it
WakeupKey(i) == wakeOnSend \o StrInt(i)
WakeupKeyOfBytes(b) == wakeOnSend \o StrBytes(b)

\* ------------------------------------------------------------------------
\* The Redis store: sets, hashes and lists by key name.  A key exists exactly
\* while its value is non-empty; flushall removes every key.
VARIABLES rset, rhash, rlist

\* The processes: the position of each in the method it is running, the
\* method's local variables and the result of its last finished call.
VARIABLES pc, loc, ret

\* The number of calls of each method that may still be started (the bound
\* that keeps the model finite); a negative number is no bound.
VARIABLE quota

\* The messages: the number of send calls so far (the message of a send call
\* is its number, so that every call sends a payload of its own), and the
\* history: the payloads pushed for each (sender, receiver) pair and the
\* payloads returned to a caller with id receiver tagged sender, both in the
\* order of the Redis calls.
VARIABLES nmsg, pushed, got

vars == <<rset, rhash, rlist, pc, loc, ret, quota, nmsg, pushed, got>>
store == <<rset, rhash, rlist>>
budget == <<quota>>
logs == <<nmsg, pushed, got>>

\* ------------------------------------------------------------------------
\* Redis commands
Smembers(k) == IF k \in DOMAIN rset THEN rset[k] ELSE {}
\* a membership test that any id passes on a set that exists
Sismember_AnyId(k, i) == Smembers(k) # {}
Sismember(k, i) == StrInt(i) \in Smembers(k)
Sadd(S, k, i) == IF k \in DOMAIN S THEN [S EXCEPT ![k] = @ \cup {StrInt(i)}]
                 ELSE (k :> {StrInt(i)}) @@ S
Hgetall(k) == IF k \in DOMAIN rhash THEN rhash[k] ELSE << >>
\* hset on a hash that is deleted first
Hset_Fresh(H, k, f, v) == (k :> (StrInt(f) :> StrInt(v))) @@ [x \in DOMAIN H \ {k} |-> H[x]]
Hset(H, k, f, v) == IF k \in DOMAIN H
                    THEN [H EXCEPT ![k] = (StrInt(f) :> StrInt(v)) @@ @]
                    ELSE (k :> (StrInt(f) :> StrInt(v))) @@ H
Hdel(H, k, f) == IF k \notin DOMAIN H THEN H
                 ELSE IF DOMAIN H[k] \subseteq {StrInt(f)}
                 THEN [x \in DOMAIN H \ {k} |-> H[x]]
                 ELSE [H EXCEPT ![k] = [x \in DOMAIN @ \ {StrInt(f)} |-> @[x]]]
Llist(k) == IF k \in DOMAIN rlist THEN rlist[k] ELSE << >>
\* rpush replaced by lpush: the value goes to the front of the list
Rpush_Front(L, k, v) == IF k \in DOMAIN L THEN [L EXCEPT ![k] = <<v>> \o @]
                        ELSE (k :> <<v>>) @@ L
Rpush(L, k, v) == IF k \in DOMAIN L THEN [L EXCEPT ![k] = Append(@, v)]
                  ELSE (k :> <<v>>) @@ L
Lpop_Keep(L, k) == L
Lpop(L, k) == IF Len(L[k]) = 1 THEN [x \in DOMAIN L \ {k} |-> L[x]]
              ELSE [L EXCEPT ![k] = Tail(@)]
Exists(k) == k \in DOMAIN rlist \cup DOMAIN rset \cup DOMAIN rhash
Empty == << >>

\* ------------------------------------------------------------------------
\* Results of a call
Ok == <<"ok">>
Err(e) == <<"error", e>>
Msg(s, m) == <<"msg", s, m>>
NoMessage == <<"None">>
TimedOut == <<"TIMEOUT", TIMEOUT>>

NoLoc == [pid |-> 0, arg |-> 0, msg |-> 0, dst |-> << >>, dstb |-> {}, cur |-> "",
          any |-> FALSE, block |-> TRUE, timeout |-> 0, keys |-> << >>]

\* The elements of a set of integers in the order Python iterates a set of
\* small integers (ascending)
SetToSeq(S) ==
    CHOOSE q \in {[n \in 1..Cardinality(T) |->
                     CHOOSE x \in T : Cardinality({y \in T : y < x}) = n - 1] \o << >> :
                 T \in {S}} : TRUE

Get(f, k) == IF k \in DOMAIN f THEN f[k] ELSE << >>
Log(f, k, v) == IF k \in DOMAIN f THEN [f EXCEPT ![k] = Append(@, v)]
                ELSE (k :> <<v>>) @@ f

\* A call of p ends with result r
Return(p, r) ==
    /\ pc' = [pc EXCEPT ![p] = "idle"]
    /\ loc' = [loc EXCEPT ![p] = NoLoc]
    /\ ret' = [ret EXCEPT ![p] = r]

\* p is between two calls and may start a call of method m
MayCall(p, m) == pc[p] = "idle" /\ quota[m] # 0
Called(m) == quota' = [quota EXCEPT ![m] = IF @ > 0 THEN @ - 1 ELSE @]

\* ------------------------------------------------------------------------
\* __checkCaller (lines 76-92)
\* osmembers = dict((int(i), int(j)) for i, j in hgetall(...).items());
\* ospid in osmembers; osmembers[ospid]
CallerKnown(p) == \E f \in DOMAIN Hgetall(osmembersID) : ParseInt(f) = p
CallerPid(p) == LET h == Hgetall(osmembersID)
                IN  ParseInt(h[CHOOSE f \in DOMAIN h : ParseInt(f) = p])
CheckCallerOk(p) == CallerKnown(p) /\ Sismember(membersID, CallerPid(p))

\* ------------------------------------------------------------------------
\* Channel.__init__ (lines 41-69): flushall, smembers, then for a new channel
\* sadd, hset, sadd
Open(p, flush, k) ==
    /\ MayCall(p, k)
    /\ Called(k)
    /\ IF flush
       THEN /\ rset' = Empty /\ rhash' = Empty /\ rlist' = Empty
            /\ pc' = [pc EXCEPT ![p] = "open_read"]
            /\ UNCHANGED <<loc, ret>>
       ELSE /\ UNCHANGED store
            /\ IF StrInt(ChannelID) \in Smembers(ChannelSetKey)
               THEN Return(p, Ok)
               ELSE /\ pc' = [pc EXCEPT ![p] = "open_sadd"]
                    /\ UNCHANGED <<loc, ret>>
    /\ UNCHANGED logs

\* Channel(ChannelID, flush) by any process
OpenCall(p, flush) == Open(p, flush, "open")

OpenRead(p) ==
    /\ pc[p] = "open_read"
    /\ IF StrInt(ChannelID) \in Smembers(ChannelSetKey)
       THEN Return(p, Ok)
       ELSE /\ pc' = [pc EXCEPT ![p] = "open_sadd"]
            /\ UNCHANGED <<loc, ret>>
    /\ UNCHANGED <<store, budget, logs>>

OpenSadd(p) ==
    /\ pc[p] = "open_sadd"
    /\ rset' = Sadd(rset, ChannelSetKey, ChannelID)
    /\ pc' = [pc EXCEPT ![p] = "open_hset"]
    /\ UNCHANGED <<rhash, rlist, loc, ret, budget, logs>>

OpenHset(p) ==
    /\ pc[p] = "open_hset"
    /\ rhash' = Hset(rhash, osmembersID, -1, -1)
    /\ pc' = [pc EXCEPT ![p] = "open_seed"]
    /\ UNCHANGED <<rset, rlist, loc, ret, budget, logs>>

OpenSeed(p) ==
    /\ pc[p] = "open_seed"
    /\ rset' = Sadd(rset, membersID, MAXPROCID)
    /\ Return(p, Ok)
    /\ UNCHANGED <<rhash, rlist, budget, logs>>

\* ------------------------------------------------------------------------
\* Channel.join (lines 125-145)
\* The two assertions compare the int ospid with the bytes keys of hgetall
\* and the int newpid with the bytes elements of smembers.
JoinAssertOs(p) == \A k \in DOMAIN Hgetall(osmembersID) : ~IntEqBytes(p, k)
JoinAssertId(newpid) == \A b \in Smembers(membersID) : ~IntEqBytes(newpid, b)

Join(p, newpid, k) ==
    /\ MayCall(p, k)
    /\ Called(k)
    /\ IF ~JoinAssertOs(p)
       THEN Return(p, Err("AlreadyJoined")) /\ UNCHANGED rhash
       ELSE IF ~JoinAssertId(newpid)
       THEN Return(p, Err("IdInUse")) /\ UNCHANGED rhash
       ELSE /\ rhash' = Hset(rhash, osmembersID, p, newpid)
            /\ pc' = [pc EXCEPT ![p] = "join_sadd"]
            /\ loc' = [loc EXCEPT ![p] = [NoLoc EXCEPT !.arg = newpid]]
            /\ UNCHANGED ret
    /\ UNCHANGED <<rset, rlist, logs>>

\* join(newpid) by any process
JoinCall(p, newpid) == Join(p, newpid, "join")

JoinSadd(p) ==
    /\ pc[p] = "join_sadd"
    /\ rset' = Sadd(rset, membersID, loc[p].arg)
    /\ pc' = [pc EXCEPT ![p] = "join_check"]
    /\ UNCHANGED <<rhash, rlist, loc, ret, budget, logs>>

JoinCheck(p) ==
    /\ pc[p] = "join_check"
    /\ Return(p, IF CheckCallerOk(p) THEN Ok ELSE Err("UnknownProcess"))
    /\ UNCHANGED <<store, budget, logs>>

\* ------------------------------------------------------------------------
\* Channel.leave (lines 147-155): __checkCaller, hdel, and then a call of
\* sdel, which the Redis client does not have (AttributeError)
LeaveCall(p) ==
    /\ MayCall(p, "leave")
    /\ Called("leave")
    /\ IF CheckCallerOk(p)
       THEN /\ pc' = [pc EXCEPT ![p] = "leave_hdel"]
            /\ loc' = [loc EXCEPT ![p] = [NoLoc EXCEPT !.pid = CallerPid(p)]]
            /\ UNCHANGED ret
       ELSE Return(p, Err("UnknownProcess"))
    /\ UNCHANGED <<store, logs>>

LeaveHdel(p) ==
    /\ pc[p] = "leave_hdel"
    /\ rhash' = Hdel(rhash, osmembersID, p)
    /\ Return(p, Err("AttributeError"))
    /\ UNCHANGED <<rset, rlist, budget, logs>>

\* ------------------------------------------------------------------------
\* Channel.sendTo (lines 165-191).  destination is an int or a collection of
\* ints; D is the list the loop runs over (no iteration for an empty one) and
\* m the message.  k names the quota the call counts against.
SendTo(p, D, m, k) ==
    /\ MayCall(p, k)
    /\ Called(k)
    /\ nmsg' = nmsg + 1
    /\ IF ~CheckCallerOk(p)
       THEN Return(p, Err("UnknownProcess"))
       ELSE IF D = << >>
       THEN Return(p, Ok)
       ELSE /\ pc' = [pc EXCEPT ![p] = "send_check"]
            /\ loc' = [loc EXCEPT ![p] =
                         [NoLoc EXCEPT !.pid = CallerPid(p), !.msg = m, !.dst = D]]
            /\ UNCHANGED ret
    /\ UNCHANGED <<store, pushed, got>>

\* The message is the number of the send call, so every call sends a payload
\* of its own.
SendToCall(p, D) == SendTo(p, D, nmsg + 1, "send")

\* lines 180-182: the destination must be a member at the time of the test
SendCheck(p) ==
    /\ pc[p] = "send_check"
    /\ IF Sismember(membersID, Head(loc[p].dst))
       THEN /\ pc' = [pc EXCEPT ![p] = "send_push"]
            /\ UNCHANGED <<loc, ret>>
       ELSE Return(p, Err("DestinationNotMember"))
    /\ UNCHANGED <<store, budget, logs>>

\* a sendTo that skips the push of the payload and goes on to the marker
SendPush_NoPayload(p) ==
    /\ pc[p] = "send_push"
    /\ pc' = [pc EXCEPT ![p] = "send_wake"]
    /\ UNCHANGED <<store, loc, ret, budget, logs>>

\* line 187: push the payload, whatever the members set is by now
SendPush(p) ==
    /\ pc[p] = "send_push"
    /\ \E i \in {Head(loc[p].dst)} :
           /\ rlist' = Rpush(rlist, Procs2Key(loc[p].pid, i), Dumps(loc[p].msg))
           /\ pushed' = Log(pushed, <<loc[p].pid, i>>, loc[p].msg)
    /\ pc' = [pc EXCEPT ![p] = "send_wake"]
    /\ UNCHANGED <<rset, rhash, loc, ret, budget, nmsg, got>>

\* line 188: push the wakeup marker, then the next destination
SendWake(p) ==
    /\ pc[p] = "send_wake"
    /\ rlist' = Rpush(rlist, WakeupKey(Head(loc[p].dst)), WAKEUP)
    /\ IF Len(loc[p].dst) = 1
       THEN Return(p, Ok)
       ELSE /\ pc' = [pc EXCEPT ![p] = "send_check"]
            /\ loc' = [loc EXCEPT ![p].dst = Tail(@)]
            /\ UNCHANGED ret
    /\ UNCHANGED <<rset, rhash, budget, logs>>

\* sendToAll without the call of __checkCaller
SendToAllCall_NoCheck(p) ==
    /\ MayCall(p, "send")
    /\ Called("send")
    /\ nmsg' = nmsg + 1
    /\ pc' = [pc EXCEPT ![p] = "sendall_members"]
    /\ loc' = [loc EXCEPT ![p] = [NoLoc EXCEPT !.msg = nmsg + 1]]
    /\ UNCHANGED <<store, ret, pushed, got>>

\* ------------------------------------------------------------------------
\* Channel.sendToAll (lines 194-203).  The loop runs over the bytes objects
\* that smembers returns, in the order Python iterates that set (any order).
SendToAll(p, m, k) ==
    /\ MayCall(p, k)
    /\ Called(k)
    /\ nmsg' = nmsg + 1
    /\ IF CheckCallerOk(p)
       THEN /\ pc' = [pc EXCEPT ![p] = "sendall_members"]
            /\ loc' = [loc EXCEPT ![p] =
                         [NoLoc EXCEPT !.pid = CallerPid(p), !.msg = m]]
            /\ UNCHANGED ret
       ELSE Return(p, Err("UnknownProcess"))
    /\ UNCHANGED <<store, pushed, got>>

\* sendToAll of the number of the send call
SendToAllCall(p) == SendToAll(p, nmsg + 1, "send")

\* line 200: smembers
SendAllMembers(p) ==
    /\ pc[p] = "sendall_members"
    /\ \E M \in {Smembers(membersID)} :
           IF M = {}
           THEN Return(p, Ok)
           ELSE /\ pc' = [pc EXCEPT ![p] = "sendall_push"]
                /\ loc' = [loc EXCEPT ![p].dstb = M]
                /\ UNCHANGED ret
    /\ UNCHANGED <<store, budget, logs>>

\* line 201: i != MAXPROCID for the bytes object i
NotSentinel(b) == ~IntEqBytes(MAXPROCID, b)

\* lines 201-202: the next element i of the set (Python iterates a set of
\* bytes objects in an order of its own: any of those left); push the payload
\* for int(i)
SendAllPush(p) ==
    /\ pc[p] = "sendall_push"
    /\ \E b \in loc[p].dstb :
          IF NotSentinel(b)
          THEN /\ rlist' = Rpush(rlist, Procs2Key(loc[p].pid, ParseInt(b)),
                                 Dumps(loc[p].msg))
               /\ pushed' = Log(pushed, <<loc[p].pid, ParseInt(b)>>, loc[p].msg)
               /\ pc' = [pc EXCEPT ![p] = "sendall_wake"]
               /\ loc' = [loc EXCEPT ![p].cur = b]
               /\ UNCHANGED ret
          ELSE /\ UNCHANGED <<rlist, pushed>>
               /\ IF loc[p].dstb = {b}
                  THEN Return(p, Ok)
                  ELSE /\ loc' = [loc EXCEPT ![p].dstb = @ \ {b}]
                       /\ UNCHANGED <<pc, ret>>
    /\ UNCHANGED <<rset, rhash, budget, nmsg, got>>

\* The wakeup key line 203 pushes to: __wakeupKey(i) of the bytes object i
SendAllWakeupKey(b) == WakeupKeyOfBytes(b)

\* line 203
SendAllWake(p) ==
    /\ pc[p] = "sendall_wake"
    /\ rlist' = Rpush(rlist, SendAllWakeupKey(loc[p].cur), WAKEUP)
    /\ IF loc[p].dstb = {loc[p].cur}
       THEN Return(p, Ok)
       ELSE /\ pc' = [pc EXCEPT ![p] = "sendall_push"]
            /\ loc' = [loc EXCEPT ![p].dstb = @ \ {loc[p].cur}, ![p].cur = ""]
            /\ UNCHANGED ret
    /\ UNCHANGED <<rset, rhash, budget, logs>>

\* ------------------------------------------------------------------------
\* Channel.recvFrom (lines 220-258) and Channel.recvFromAny (lines 262-294)
\* sender is an int or a collection of ints; S is the list the call iterates.
RecvFromCall(p, S, block, timeout) ==
    /\ MayCall(p, "recv")
    /\ Called("recv")
    /\ IF CheckCallerOk(p)
       THEN /\ pc' = [pc EXCEPT ![p] = "recv_loop"]
            /\ loc' = [loc EXCEPT ![p] =
                         [NoLoc EXCEPT !.pid = CallerPid(p), !.dst = S, !.any = FALSE,
                                       !.block = block, !.timeout = timeout]]
            /\ UNCHANGED ret
       ELSE Return(p, Err("UnknownProcess"))
    /\ UNCHANGED <<store, logs>>

RecvFromAny(p, block, timeout, k) ==
    /\ MayCall(p, k)
    /\ Called(k)
    /\ IF CheckCallerOk(p)
       THEN /\ pc' = [pc EXCEPT ![p] = "recv_loop"]
            /\ loc' = [loc EXCEPT ![p] =
                         [NoLoc EXCEPT !.pid = CallerPid(p), !.any = TRUE,
                                       !.block = block, !.timeout = timeout]]
            /\ UNCHANGED ret
       ELSE Return(p, Err("UnknownProcess"))
    /\ UNCHANGED <<store, logs>>

\* recvFromAny(block, timeout) by any process
RecvFromAnyCall(p, block, timeout) == RecvFromAny(p, block, timeout, "recv")

\* set(int(i) for i in channel.smembers(self.membersID))
MembersInt == {ParseInt(b) : b \in Smembers(membersID)}

SeqRange(q) == {q[n] : n \in 1..Len(q)}

\* prockeys of recvFrom (lines 238-239) and of recvFromAny (lines 275-276):
\* the pair keys of the candidate senders, then the caller's wakeup key
\* prockeys without the pair keys
RecvFromKeys_WakeupOnly(S, pid) == <<WakeupKey(pid)>>
RecvFromKeys(S, pid) ==
    [n \in 1..Len(S) |-> Procs2Key(S[n], pid)]
      \o <<WakeupKey(pid)>>
\* prockeys with the caller left among the candidate senders
RecvAnyKeys_WithCaller(members, pid) ==
    CHOOSE keys \in {[n \in 1..Len(S) |-> Procs2Key(S[n], pid)]
                       \o <<wakeOnSend \o StrInt(pid)>> :
                     S \in {SetToSeq(members)}} : TRUE
RecvAnyKeys(members, pid) ==
    CHOOSE keys \in {[n \in 1..Len(S) |-> Procs2Key(S[n], pid)]
                       \o <<wakeOnSend \o StrInt(pid)>> :
                     S \in {SetToSeq(members \ {pid})}} : TRUE

\* The head of the receive loop (lines 234-239 and 271-276): the membership
\* is read, checked and turned into the keys to pop from; arg is the place
\* in the keys of the next exists of __keysExist, dstb what smembers
\* returned to recvFromAny (line 271)
RecvLoop(p) ==
    /\ pc[p] = "recv_loop"
    /\ \E members \in {MembersInt}, pid \in {loc[p].pid},
          next \in {IF loc[p].block THEN "recv_blpop" ELSE "recv_exists"} :
           IF loc[p].any
           THEN IF pid \notin members
                THEN Return(p, Err("KeyError"))
                ELSE /\ pc' = [pc EXCEPT ![p] = next]
                     /\ loc' = [loc EXCEPT ![p].keys = RecvAnyKeys(members, pid),
                                          ![p].dstb = Smembers(membersID),
                                          ![p].arg = 1]
                     /\ UNCHANGED ret
           ELSE IF MAXPROCID \notin members
                THEN Return(p, Err("KeyError"))
                ELSE IF ~(SeqRange(loc[p].dst) \subseteq members \ {MAXPROCID})
                THEN Return(p, Err("UnknownSender"))
                ELSE /\ pc' = [pc EXCEPT ![p] = next]
                     /\ loc' = [loc EXCEPT ![p].keys = RecvFromKeys(loc[p].dst, pid),
                                          ![p].arg = 1]
                     /\ UNCHANGED ret
    /\ UNCHANGED <<store, budget, logs>>

\* lines 241-243 and 278-280 with __keysExist (lines 207-212): one exists
\* per step, for the keys in their order, until one of them exists
RecvExists(p) ==
    /\ pc[p] = "recv_exists"
    /\ IF Exists(loc[p].keys[loc[p].arg])
       THEN /\ pc' = [pc EXCEPT ![p] = "recv_blpop"]
            /\ UNCHANGED <<loc, ret>>
       ELSE IF loc[p].arg = Len(loc[p].keys)
       THEN Return(p, NoMessage)
       ELSE /\ loc' = [loc EXCEPT ![p].arg = @ + 1]
            /\ UNCHANGED <<pc, ret>>
    /\ UNCHANGED <<store, budget, logs>>

\* blpop serves the first of the keys, in the order given, that holds data
Ready(keys) == {n \in 1..Len(keys) : Llist(keys[n]) # << >>}
FirstReady(keys) == keys[CHOOSE n \in Ready(keys) : \A k \in Ready(keys) : n <= k]

\* a test that takes every popped key for the wakeup key
IsMessageKey_Never(key, pid) == FALSE

\* lines 252 and 288: the popped key is not the caller's wakeup key
IsMessageKey(key, pid) == key # WakeupKey(pid)

\* the tag taken from the second half of the key
Received_TagReceiver(key, value) == Msg(Key2Procs(key)[2], Loads(value))

\* lines 256 and 292: the value returned for a popped payload
Received(key, value) == Msg(Key2Procs(key)[1], Loads(value))

\* lines 245-256 and 282-292: blpop returns a (key, value) pair
RecvBlpop(p) ==
    /\ pc[p] = "recv_blpop"
    /\ Ready(loc[p].keys) # {}
    /\ \E key \in {FirstReady(loc[p].keys)} : \E value \in {Head(Llist(key))} :
           /\ rlist' = Lpop(rlist, key)
           /\ IF IsMessageKey(key, loc[p].pid)
              THEN /\ Return(p, Received(key, value))
                   /\ got' = Log(got, <<Received(key, value)[2], loc[p].pid>>,
                                 Received(key, value)[3])
              ELSE /\ pc' = [pc EXCEPT ![p] = "recv_loop"]
                   /\ UNCHANGED <<loc, ret, got>>
    /\ UNCHANGED <<rset, rhash, budget, nmsg, pushed>>

\* a blpop that waits on whatever timeout is given
BlpopTimesOut_Never(keys, timeout) == FALSE

\* blpop gives up: a timeout was given and none of the keys holds data
BlpopTimesOut(keys, timeout) == timeout # 0 /\ Ready(keys) = {}

\* lines 257-258 and 293-294
RecvTimeout(p) ==
    /\ pc[p] = "recv_blpop"
    /\ BlpopTimesOut(loc[p].keys, loc[p].timeout)
    /\ Return(p, TimedOut)
    /\ UNCHANGED <<store, budget, logs>>

\* ------------------------------------------------------------------------
\* The state after the channel was opened once (Channel.__init__ on an
\* empty store): the channel is known and the placeholder entries are there.
\* Every process holds a Channel object and has not joined.
InitStore ==
    /\ rset = Sadd(Sadd(Empty, ChannelSetKey, ChannelID), membersID, MAXPROCID)
    /\ rhash = Hset(Empty, osmembersID, -1, -1)
    /\ rlist = Empty

Init ==
    /\ InitStore
    /\ pc = [p \in SpecProcs |-> "idle"]
    /\ loc = [p \in SpecProcs |-> NoLoc]
    /\ ret = [p \in SpecProcs |-> Ok]
    /\ quota = [open |-> MaxOpens, join |-> MaxJoins, leave |-> MaxLeaves,
                send |-> MaxSends, recv |-> MaxRecvs]
    /\ nmsg = 0
    /\ pushed = Empty
    /\ got = Empty

\* Arguments of the calls: a single id or all ids
IdLists(I) == {<<d>> : d \in I} \cup {SetToSeq(I)}

\* (block, timeout) of a receive call: blocking, blocking with a timeout,
\* and not blocking
RecvModes == {<<TRUE, 0>>, <<TRUE, 1>>, <<FALSE, 0>>}

Next ==
    \E p \in SpecProcs :
        \/ \E flush \in BOOLEAN : OpenCall(p, flush)
        \/ OpenRead(p)
        \/ OpenSadd(p)
        \/ OpenHset(p)
        \/ OpenSeed(p)
        \/ \E newpid \in SpecIds : JoinCall(p, newpid)
        \/ JoinSadd(p)
        \/ JoinCheck(p)
        \/ LeaveCall(p)
        \/ LeaveHdel(p)
        \/ \E D \in IdLists(SpecIds) \cup {<< >>} : SendToCall(p, D)
        \/ SendCheck(p)
        \/ SendPush(p)
        \/ SendWake(p)
        \/ SendToAllCall(p)
        \/ SendAllMembers(p)
        \/ SendAllPush(p)
        \/ SendAllWake(p)
        \/ \E S \in IdLists(SpecIds), m \in RecvModes : RecvFromCall(p, S, m[1], m[2])
        \/ \E m \in RecvModes : RecvFromAnyCall(p, m[1], m[2])
        \/ RecvLoop(p)
        \/ RecvExists(p)
        \/ RecvBlpop(p)
        \/ RecvTimeout(p)

Spec == Init /\ [][Next]_vars

\* ------------------------------------------------------------------------
\* Messaging between members.  The processes have joined (ids[p] is the id
\* of process p) and nothing was sent yet.
Joined(ids) ==
    /\ rset = Sadd(Sadd(Sadd(Sadd(Sadd(Empty, ChannelSetKey, ChannelID),
                membersID, MAXPROCID),
                membersID, ids[101]),
                membersID, ids[102]),
                membersID, ids[103])
    /\ rhash = Hset(Hset(Hset(Hset(Empty, osmembersID, -1, -1),
                 osmembersID, 101, ids[101]),
                 osmembersID, 102, ids[102]),
                 osmembersID, 103, ids[103])
    /\ rlist = Empty

InitProcs ==
    /\ pc = [p \in Procs |-> "idle"]
    /\ loc = [p \in Procs |-> NoLoc]
    /\ ret = [p \in Procs |-> Ok]
    /\ nmsg = 0
    /\ pushed = Empty
    /\ got = Empty

\* 101 (id 1), 102 (id 2) and 103 (id 3): 101 and 103 send with sendTo, to 2
\* or to 2 and 3; 102 and 103 receive, from 1, from 1 and 3, or from any
Senders == {101, 103}
Receivers == {102, 103}

MsgDests == {<<2>>, <<2, 3>>}
MsgFrom == {<<1>>, <<1, 3>>}

MsgInit ==
    /\ Joined([p \in Procs |-> IF p = 101 THEN 1 ELSE IF p = 102 THEN 2 ELSE 3])
    /\ InitProcs
    /\ quota = [open |-> 0, join |-> 0, leave |-> 0, send |-> MsgSends, recv |-> MsgRecvs]

MsgNext ==
    \E p \in Procs :
        \/ p \in Senders /\ \E D \in MsgDests : SendToCall(p, D)
        \/ SendCheck(p)
        \/ SendPush(p)
        \/ SendWake(p)
        \/ p \in Receivers /\ \E S \in MsgFrom, m \in RecvModes : RecvFromCall(p, S, m[1], m[2])
        \/ p \in Receivers /\ \E m \in RecvModes : RecvFromAnyCall(p, m[1], m[2])
        \/ RecvLoop(p)
        \/ RecvExists(p)
        \/ RecvBlpop(p)
        \/ RecvTimeout(p)

SpecMsg == MsgInit /\ [][MsgNext]_vars

\* ------------------------------------------------------------------------
\* A receiver that keeps receiving.  All three members send to 2 with
\* sendTo; 102 (id 2) issues one blocking receive call after the other,
\* with or without a timeout: recvFrom naming 2 and 3, recvFrom naming 1, 2
\* and 3, or recvFromAny.
LiveReceivers == {102}
LiveFrom == {<<2, 3>>, <<1, 2, 3>>}
LiveModes == {<<TRUE, 0>>, <<TRUE, 1>>}

LiveInit ==
    /\ Joined([p \in Procs |-> IF p = 101 THEN 1 ELSE IF p = 102 THEN 2 ELSE 3])
    /\ InitProcs
    /\ quota = [open |-> 0, join |-> 0, leave |-> 0, send |-> LiveSends, recv |-> -1]

\* The steps of p inside a call
Continue(p) ==
    \/ SendCheck(p)
    \/ SendPush(p)
    \/ SendWake(p)
    \/ RecvLoop(p)
    \/ RecvBlpop(p)
    \/ RecvTimeout(p)

LiveSendCall(p) == SendToCall(p, <<2>>)

LiveRecvCall(p) ==
    /\ p \in LiveReceivers
    /\ \/ \E S \in LiveFrom, m \in LiveModes : RecvFromCall(p, S, m[1], m[2])
       \/ \E m \in LiveModes : RecvFromAnyCall(p, m[1], m[2])

LiveNext == \E p \in Procs : LiveSendCall(p) \/ LiveRecvCall(p) \/ Continue(p)

\* Scheduling: a process inside a call goes on with it (a call that is not
\* blocked takes its next step), and the receiver calls again after a return.
LiveFair ==
    /\ \A p \in Procs : WF_vars(Continue(p))
    /\ \A p \in LiveReceivers : WF_vars(LiveRecvCall(p))

SpecLive == LiveInit /\ [][LiveNext]_vars /\ LiveFair


\* ------------------------------------------------------------------------
\* Properties

\* The payloads pushed for, and returned from, pair (s, r)
Pushed(s, r) == SeqRange(Get(pushed, <<s, r>>))
Got(s, r) == SeqRange(Get(got, <<s, r>>))

\* p is inside a receive call
Receiving(p) == pc[p] \in {"recv_loop", "recv_exists", "recv_blpop"}

\* The step is the start of a call of method m
Starts(m) == quota'[m] # quota[m]

\* ------------------------------------------------------------------------
\* C1 (race property), as stated: a member r is blocked in the pop of a
\* recvFromAny() without timeout, a member s has pushed a payload for r that
\* is still in the pair queue (s, r), and every other process has finished
\* its call.  Then the pop of r can be served: one of the keys r waits on
\* holds data (the payload, or the wakeup marker that makes r look again).
C1_RaceClosed ==
    \A r \in SpecProcs :
        ( /\ pc[r] = "recv_blpop"
          /\ loc[r].any /\ loc[r].block /\ loc[r].timeout = 0
          /\ \A q \in SpecProcs \ {r} : pc[q] = "idle"
          /\ \E s \in SpecIds \ {loc[r].pid} :
                 /\ Sismember(membersID, s)
                 /\ Llist(Procs2Key(s, loc[r].pid)) # << >> )
        => Ready(loc[r].keys) # {}

\* ------------------------------------------------------------------------
\* The ids that every receive call of the receiver admits as sender
LiveSenders == {s \in Ids : \A S \in LiveFrom : s \in SeqRange(S)}

\* C2 (delivery liveness), as stated, for every member S, the receiver R
\* included: a payload that S has pushed for R (id 2) is eventually returned,
\* tagged S, to R, which keeps issuing blocking recvFrom calls that name S
\* and recvFromAny calls.
C2_DeliveryLivenessAll ==
    \A s \in LiveSenders : \A m \in 1..LiveSends :
        (m \in Pushed(s, 2)) ~> (m \in Got(s, 2))

\* C2 (delivery liveness), for a sender S other than the receiver R: a payload
\* that member 3 has pushed for member 2 is eventually returned, tagged 3, to
\* the process joined as 2, which keeps issuing blocking recvFrom calls that
\* name 3 and recvFromAny calls, while 1 and 2 send to 2 as well.
C2_DeliveryLiveness ==
    \A s \in LiveSenders \ {2} : \A m \in 1..LiveSends :
        (m \in Pushed(s, 2)) ~> (m \in Got(s, 2))

\* C2 witness: the receiver was handed a payload of 3 after it was handed
\* a payload of 1 that was sent later.
C2_Witness ==
    \E m \in 1..LiveSends :
        /\ ret[102] = Msg(3, m)
        /\ m \in Got(3, 2)
        /\ \E n \in Got(1, 2) : n > m

\* ------------------------------------------------------------------------
\* C3 (delivery safety): every value a receive call has returned is a pair
\* (s, m) such that s pushed m for the caller's id: nothing is returned to a
\* process other than the destination, the tag is the sender's id, and what
\* is returned is a payload (a wakeup marker is none).
C3_DeliverySafety ==
    /\ \A k \in DOMAIN got : SeqRange(got[k]) \subseteq Pushed(k[1], k[2])
    /\ \A p \in Procs :
           ret[p][1] = "msg" => ret[p][3] \in Pushed(ret[p][2], CallerPid(p))

\* C3 witness: one sendTo call of 1 to 2 and 3 was delivered to both, each
\* by a receive call of its own, and 3 sent to 2 as well.
C3_Witness ==
    /\ \E m \in 1..MsgSends : m \in Got(1, 2) /\ m \in Got(1, 3)
    /\ Pushed(3, 2) # {}

\* ------------------------------------------------------------------------
\* In the sequence q, a comes before b
Before(q, a, b) == \E i, j \in 1..Len(q) : i < j /\ q[i] = a /\ q[j] = b

\* C4 (FIFO per pair): for every pair (s, r), the payloads returned to r
\* tagged s are returned in the order in which s pushed them.
C4_FifoPerPair ==
    \A k \in DOMAIN got :
        \A a, b \in 1..Len(got[k]) :
            a < b => Before(Get(pushed, k), got[k][a], got[k][b])

\* C4 witness: 2 was handed two payloads of 1, and a payload of 3 that was
\* pushed between the two is in the store or was handed to 2 as well.
C4_Witness ==
    /\ Len(Get(got, <<1, 2>>)) = 2
    /\ \E m \in Pushed(3, 2) : got[<<1, 2>>][1] < m /\ m < got[<<1, 2>>][2]

\* ------------------------------------------------------------------------
\* C5 (join-once), as stated: a join(id) call made by a process p that has
\* an entry in osMembers, for every id it passes, fails with AlreadyJoined
\* and leaves osMembers and members as they are.  The step is the call of p
\* itself: a join of another process while p is idle is no case of it.
C5_JoinOnce ==
    [][\A p \in SpecProcs : \A id \in SpecIds :
          (CallerKnown(p) /\ JoinCall(p, id))
          => (ret'[p] = Err("AlreadyJoined") /\ rhash' = rhash /\ rset' = rset)]_vars

\* ------------------------------------------------------------------------
\* C6 (unique channel-level ids), as stated: no two OS processes are mapped
\* by osMembers to the same channel-level id.
C6_UniqueIds ==
    \A p, q \in SpecProcs :
        (p # q /\ CallerKnown(p) /\ CallerKnown(q)) => CallerPid(p) # CallerPid(q)

\* ------------------------------------------------------------------------
\* C7 (leave removes both entries), as stated: when the leave call of a
\* validated member ends, the caller has no entry in osMembers and its id is
\* not in members.
C7_LeaveRemovesBoth ==
    [][\A p \in SpecProcs :
          (pc[p] = "leave_hdel" /\ pc'[p] = "idle")
          => /\ \A f \in DOMAIN Get(rhash', osmembersID) : ParseInt(f) # p
             /\ StrInt(loc[p].pid) \notin Get(rset', membersID)]_vars

\* ------------------------------------------------------------------------
\* C8 (sendToAll as sendTo to the members), as stated: the lists in the
\* store are those sendTo writes for destinations that are ids of members:
\* pair queues (s, d) and the wakeup queues d waits on, for ids s and d other
\* than the sentinel.
C8_SendToAllAsSendTo ==
    \A k \in DOMAIN rlist :
        \/ \E s, d \in SpecIds : k = Procs2Key(s, d)
        \/ \E d \in SpecIds : k = WakeupKey(d)

\* ------------------------------------------------------------------------
\* C9 (non-blocking receive never suspends), as stated: a receive call with
\* block=False that reaches the pop finds data in one of its keys, so that
\* the pop (which it issues with the timeout it was given, 0: wait without
\* limit) is served at once.
C9_NonBlockingNeverSuspends ==
    \A p \in SpecProcs :
        (pc[p] = "recv_blpop" /\ ~loc[p].block) => Ready(loc[p].keys) # {}

\* ------------------------------------------------------------------------
\* C10 (timed receive terminates): a blocking receive call with a timeout
\* that is not 0 always ends, while all members send to the caller.
C10_TimedReceiveEnds ==
    \A p \in LiveReceivers :
        (Receiving(p) /\ loc[p].block /\ loc[p].timeout # 0) ~> (pc[p] = "idle")

\* C10 witness: payloads were pushed for pairs the receiver did not ask for
\* and wakeup markers for it; it has popped all the markers without being
\* handed a payload, and its call returned TIMEOUT.
C10_Witness ==
    /\ ret[102] = TimedOut
    /\ Pushed(2, 2) # {}
    /\ \A s \in Ids : Got(s, 2) = {}
    /\ WakeupKey(2) \notin DOMAIN rlist
    /\ \A p \in Procs : pc[p] = "idle"

\* ------------------------------------------------------------------------
\* The set and the hash under key k in the stores S and H
SetAt(S, k) == IF k \in DOMAIN S THEN S[k] ELSE {}
HashAt(H, k) == IF k \in DOMAIN H THEN H[k] ELSE << >>

\* The entries of the hash h other than the placeholder field f
Without(h, f) == [x \in DOMAIN h \ {f} |-> h[x]]

\* p is at a write of Channel.__init__
OpenWrites(p) == pc[p] \in {"open_sadd", "open_hset", "open_seed"}

\* C11 (open is idempotent): a Channel(id) call without flush that finds the
\* channel known changes nothing in the store; and every write of an open,
\* whatever was joined or opened since it read the known channels, leaves the
\* known channels, members and osMembers as they were but for the channel's
\* own entry and the two placeholder entries, which it adds if missing.
C11_OpenIdempotent ==
    [][\A p \in SpecProcs :
          /\ ( /\ Starts("open") /\ \A q \in SpecProcs : pc'[q] = "open_read" => pc[q] = "open_read"
               /\ StrInt(ChannelID) \in Smembers(ChannelSetKey) )
             => (pc' = pc /\ rset' = rset /\ rhash' = rhash /\ rlist' = rlist)
          /\ (OpenWrites(p) /\ pc'[p] # pc[p])
             => /\ rlist' = rlist
                /\ DOMAIN rset' \subseteq DOMAIN rset \cup {ChannelSetKey, membersID}
                /\ DOMAIN rhash' \subseteq DOMAIN rhash \cup {osmembersID}
                /\ SetAt(rset', ChannelSetKey) \ {StrInt(ChannelID)}
                     = SetAt(rset, ChannelSetKey) \ {StrInt(ChannelID)}
                /\ SetAt(rset', membersID) \ {StrInt(MAXPROCID)}
                     = SetAt(rset, membersID) \ {StrInt(MAXPROCID)}
                /\ Without(HashAt(rhash', osmembersID), StrInt(-1))
                     = Without(HashAt(rhash, osmembersID), StrInt(-1))
                /\ SetAt(rset, ChannelSetKey) \subseteq SetAt(rset', ChannelSetKey)
                /\ SetAt(rset, membersID) \subseteq SetAt(rset', membersID)
                /\ \A f \in DOMAIN HashAt(rhash, osmembersID) :
                       /\ f \in DOMAIN HashAt(rhash', osmembersID)
                       /\ HashAt(rhash', osmembersID)[f] = HashAt(rhash, osmembersID)[f]]_vars

\* C11 witness: an open has written the placeholder of osMembers and is about
\* to write the one of members while a process that joined in between has
\* its entries in osMembers and in members.
C11_Witness ==
    \E p, q \in SpecProcs :
        /\ pc[p] = "open_seed"
        /\ CheckCallerOk(q)
        /\ StrInt(-1) \in DOMAIN Hgetall(osmembersID)

\* ------------------------------------------------------------------------
\* The OS process p has an entry in osMembers and the id it is mapped to is
\* in members
Authorized(p) ==
    \E f \in DOMAIN HashAt(rhash, osmembersID) :
        /\ f = StrInt(p)
        /\ HashAt(rhash, osmembersID)[f] \in SetAt(rset, membersID)

\* The step is the start of a call of leave, sendTo, sendToAll, recvFrom or
\* recvFromAny
StartsChecked == Starts("leave") \/ Starts("send") \/ Starts("recv")

\* C12 (authorization on every call): a call of leave, sendTo, sendToAll,
\* recvFrom or recvFromAny goes on only for a caller that is in osMembers
\* with an id that is in members; every other call ends at once with
\* UnknownProcess and the store as it was.  The one checked call that ends
\* at once for an authorized caller is sendTo with no destination, which
\* returns Ok, also with the store as it was.
C12_Authorization ==
    [][StartsChecked =>
          /\ \A p \in SpecProcs : pc'[p] # pc[p] => Authorized(p)
          /\ pc' = pc =>
                /\ rset' = rset /\ rhash' = rhash /\ rlist' = rlist
                /\ \/ \E p \in SpecProcs :
                          ~Authorized(p) /\ ret'[p] = Err("UnknownProcess")
                   \/ /\ Starts("send")
                      /\ \E p \in SpecProcs : Authorized(p) /\ ret'[p] = Ok]_vars

\* C12 witness: no process has called join, one has called a receive and
\* a send method, and its last call failed with UnknownProcess.
C12_Witness ==
    \E p \in SpecProcs :
        /\ quota["join"] = MaxJoins
        /\ quota["send"] < MaxSends /\ quota["recv"] < MaxRecvs
        /\ ret[p] = Err("UnknownProcess")
        /\ rlist = Empty

\* ------------------------------------------------------------------------
\* The senders a receive call of p admits: the requested ones, or the
\* members that the call has read, less the caller
Admits(p, s) ==
    IF loc[p].any
    THEN s # loc[p].pid /\ \E b \in loc[p].dstb : ParseInt(b) = s
    ELSE s \in SeqRange(loc[p].dst)

\* The ids that pair keys are made of
AllIds == Ids \cup {MAXPROCID}

\* C13 (selective receive): the pop of a receive call returns a message only
\* of a sender the call admits (recvFrom(X): a sender in X; recvFromAny: not
\* the caller), and it leaves every pair queue of a sender it does not admit,
\* and every pair queue addressed to another id, as it was.
C13_SelectiveReceive ==
    [][\A p \in Procs :
          (pc[p] = "recv_blpop" /\ pc'[p] # pc[p]) =>
              /\ (ret'[p][1] = "msg" /\ pc'[p] = "idle") => Admits(p, ret'[p][2])
              /\ \A s, r \in AllIds :
                     (~Admits(p, s) \/ r # loc[p].pid) =>
                         Get(rlist', Procs2Key(s, r)) = Get(rlist, Procs2Key(s, r))]_vars

\* C13 witness: 2 and 3 were each handed a payload of 1 while a payload of 3
\* for 2 and a payload of 3 for itself, pushed before, are still queued.
C13_Witness ==
    /\ Got(1, 2) # {} /\ Got(1, 3) # {}
    /\ \E m \in Got(1, 2) \cup Got(1, 3) :
           /\ Llist(Procs2Key(3, 2)) # << >> /\ Loads(Head(Llist(Procs2Key(3, 2)))) < m
           /\ Llist(Procs2Key(3, 3)) # << >> /\ Loads(Head(Llist(Procs2Key(3, 3)))) < m
    /\ Got(3, 2) = {} /\ Got(3, 3) = {}

\* ------------------------------------------------------------------------
\* The end-to-end scenario: a sequence of calls of the Channel methods, not
\* the demo program.  101 has joined as 1 and 102 as 2.  101 calls
\* sendToAll(1), ..., sendToAll(E2ERounds) and then recvFromAny(); 102 calls
\* recvFromAny() E2ERounds times and then sendTo(1, "ack").  The two run
\* side by side.
E2EInit ==
    /\ rset = Sadd(Sadd(Sadd(Sadd(Empty, ChannelSetKey, ChannelID),
                membersID, MAXPROCID), membersID, 1), membersID, 2)
    /\ rhash = Hset(Hset(Hset(Empty, osmembersID, -1, -1),
                 osmembersID, 101, 1), osmembersID, 102, 2)
    /\ rlist = Empty
    /\ pc = [p \in SpecProcs |-> "idle"]
    /\ loc = [p \in SpecProcs |-> NoLoc]
    /\ ret = [p \in SpecProcs |-> Ok]
    /\ quota = [send_value |-> E2ERounds, recv_ack |-> 1,
                recv_value |-> E2ERounds, send_ack |-> 1]
    /\ nmsg = 0
    /\ pushed = Empty
    /\ got = Empty

E2ESendValue ==
    SendToAll(101, E2ERounds - quota["send_value"] + 1, "send_value")

E2ERecvAck ==
    /\ quota["send_value"] = 0
    /\ RecvFromAny(101, TRUE, 0, "recv_ack")

E2ERecvValue == RecvFromAny(102, TRUE, 0, "recv_value")

E2ESendAck ==
    /\ quota["recv_value"] = 0
    /\ SendTo(102, <<1>>, "ack", "send_ack")

\* The steps of p inside a call of the scenario
E2EStep(p) ==
    \/ SendAllMembers(p)
    \/ SendAllPush(p)
    \/ SendAllWake(p)
    \/ SendCheck(p)
    \/ SendPush(p)
    \/ SendWake(p)
    \/ RecvLoop(p)
    \/ RecvBlpop(p)

E2ENext ==
    \/ E2ESendValue
    \/ E2ERecvAck
    \/ E2ERecvValue
    \/ E2ESendAck
    \/ \E p \in SpecProcs : E2EStep(p)

\* Scheduling: both callers run, so each goes on with its calls unless it is
\* blocked in a pop.
E2EFair ==
    /\ WF_vars(E2ESendValue \/ E2ERecvAck \/ E2EStep(101))
    /\ WF_vars(E2ERecvValue \/ E2ESendAck \/ E2EStep(102))

SpecE2E == E2EInit /\ [][E2ENext]_vars /\ E2EFair

\* The values 1 sends
E2EValues == [n \in 1..E2ERounds |-> n]

\* C14 (end-to-end scenario): what 2 has received so far is always the
\* first values of 1, 2, ..., in that order and tagged with sender 1, and
\* nothing tagged otherwise; in the end 2 has received all of them and the
\* recvFromAny() of 1 has returned (2, "ack").
C14_EndToEnd ==
    /\ [](/\ \E n \in 0..E2ERounds : Get(got, <<1, 2>>) = SubSeq(E2EValues, 1, n)
          /\ \A s \in AllIds \ {1} : Get(got, <<s, 2>>) = << >>
          /\ \A s \in AllIds \ {2} : Get(got, <<s, 1>>) = << >>
          /\ Len(Get(got, <<2, 1>>)) <= 1)
    /\ <>(/\ Get(got, <<1, 2>>) = E2EValues
          /\ Len(Get(got, <<2, 1>>)) = 1
          /\ pc[101] = "idle" /\ ret[101] = Msg(2, "ack"))

\* C14 witness: 2 has received all the values, has sent the ack, and 1 got it
\* from its recvFromAny().
C14_Witness ==
    /\ Get(got, <<1, 2>>) = E2EValues
    /\ quota["send_ack"] = 0 /\ pc[102] = "idle" /\ ret[102] = Ok
    /\ quota["recv_ack"] = 0 /\ pc[101] = "idle"
    /\ Len(ret[101]) = 3 /\ ret[101][2] = 2 /\ ret[101][3] = "ack"

\* ------------------------------------------------------------------------
\* C15 (destination not a member): when sendTo tests a destination d that
\* is not in the members set at that time, the call ends there with
\* DestinationNotMember and appends nothing: neither to the pair queue
\* (caller, d) nor to the wakeup queue of d, nor to any other list.
C15_DestinationNotMember ==
    [][\A p \in SpecProcs :
          ( /\ pc[p] = "send_check" /\ pc'[p] # pc[p]
            /\ StrInt(Head(loc[p].dst)) \notin SetAt(rset, membersID) )
          => /\ pc'[p] = "idle"
             /\ ret'[p] = Err("DestinationNotMember")
             /\ rlist' = rlist]_vars

\* C15 witness: a sendTo to 1 and 2 has pushed payload and marker for the
\* member 1 and failed at 2, which is not a member and has empty queues.
C15_Witness ==
    \E p \in SpecProcs :
        /\ pc[p] = "idle" /\ ret[p] = Err("DestinationNotMember")
        /\ CheckCallerOk(p)
        /\ Sismember(membersID, 1) /\ ~Sismember(membersID, 2)
        /\ Llist(Procs2Key(CallerPid(p), 1)) # << >> /\ Llist(WakeupKey(1)) # << >>
        /\ Llist(Procs2Key(CallerPid(p), 2)) = << >> /\ Llist(WakeupKey(2)) = << >>

\* ------------------------------------------------------------------------
\* A member that leaves.  101 (id 1), 102 (id 2) and 103 (id 3) have joined.
\* 101 calls leave(); 103 sends to 2 with sendTo; 102 calls recvFrom(1) or
\* recvFrom([1, 3]), blocking, one call after the other.
GoneFrom == {<<1>>, <<1, 3>>}

GoneInit ==
    /\ Joined([p \in Procs |-> IF p = 101 THEN 1 ELSE IF p = 102 THEN 2 ELSE 3])
    /\ InitProcs
    /\ quota = [open |-> 0, join |-> 0, leave |-> MaxLeaves, send |-> GoneSends,
                recv |-> GoneRecvs]

GoneNext ==
    \/ LeaveCall(101)
    \/ LeaveHdel(101)
    \/ SendToCall(103, <<2>>)
    \/ SendCheck(103)
    \/ SendPush(103)
    \/ SendWake(103)
    \/ \E S \in GoneFrom : RecvFromCall(102, S, TRUE, 0)
    \/ RecvLoop(102)
    \/ RecvBlpop(102)

SpecGone == GoneInit /\ [][GoneNext]_vars

\* s is a current member: a process is registered with id s and s is in the
\* members set (join enters both, leave is to remove both)
IsMember(s) ==
    /\ StrInt(s) \in SetAt(rset, membersID)
    /\ \E f \in DOMAIN HashAt(rhash, osmembersID) : HashAt(rhash, osmembersID)[f] = StrInt(s)

\* C16 (unknown sender), as stated: whenever the receive loop of a
\* recvFrom(X) starts an iteration, the first or a later one after a wakeup
\* marker, while a sender in X is not a current member, the call fails
\* (with UnknownSender; the formula asks only for a failure) instead of
\* going on to the pop.
C16_UnknownSender ==
    [][\A p \in Procs :
          ( /\ pc[p] = "recv_loop" /\ ~loc[p].any /\ pc'[p] # pc[p]
            /\ \E s \in SeqRange(loc[p].dst) : ~IsMember(s) )
          => (pc'[p] = "idle" /\ ret'[p][1] = "error")]_vars

\* ------------------------------------------------------------------------
\* The wakeup queue of id r, and the places of the payloads ever pushed to
\* the pair queues addressed to r
WakeQueue(r) == wakeOnSend \o StrInt(r)
PayloadsFor(r) ==
    UNION {{<<s, n>> : n \in 1..Len(Get(pushed, <<s, r>>))} : s \in AllIds}

\* C17 (payload before wakeup): a step that appends a marker to the wakeup
\* queue of r appends one marker, and it is taken by a send whose payload
\* for r was appended to the pair queue (sender, r) before; so in every
\* state the wakeup queue of r holds no more markers than payloads were ever
\* pushed to the pair queues addressed to r.
C17_PayloadBeforeWakeup ==
    /\ [](\A r \in AllIds :
             Len(Get(rlist, WakeQueue(r))) <= Cardinality(PayloadsFor(r)))
    /\ [][\A r \in AllIds :
             Len(Get(rlist', WakeQueue(r))) > Len(Get(rlist, WakeQueue(r)))
             => /\ Len(Get(rlist', WakeQueue(r))) = Len(Get(rlist, WakeQueue(r))) + 1
                /\ \E p \in SpecProcs :
                       /\ pc[p] = "send_wake" /\ pc'[p] # pc[p]
                       /\ Head(loc[p].dst) = r
                       /\ loc[p].msg \in Pushed(loc[p].pid, r)]_vars

\* C17 witness: a marker is on the wakeup queue of r after the payload it
\* announces was popped by r, and the sender is on its way to the next
\* destination.
C17_Witness ==
    \E r \in SpecIds, p \in SpecProcs :
        /\ Get(rlist, WakeQueue(r)) # << >>
        /\ pc[p] = "send_check"
        /\ loc[p].msg \in Got(loc[p].pid, r)

\* ------------------------------------------------------------------------
\* The key codec on its own.  Each of two Channel objects is given a channel
\* id c and a pair of ids (s, r), loc[p].dst = <<c, s, r>>; it builds the
\* pair key of (s, r) and the wakeup key of r, and decodes the pair key.
CodecChans == {1, 2}
CodecIds == {2, 6, 1234, 9999, 12345, 50006}

CodecInit ==
    /\ InitStore
    /\ pc = [p \in SpecProcs |-> "idle"]
    /\ loc \in [SpecProcs -> {[NoLoc EXCEPT !.dst = <<c, s, r>>] :
                                c \in CodecChans, s \in CodecIds, r \in CodecIds}]
    /\ ret = [p \in SpecProcs |-> Ok]
    /\ quota = [open |-> 0, join |-> 0, leave |-> 0, send |-> 0, recv |-> 0]
    /\ nmsg = 0
    /\ pushed = Empty
    /\ got = Empty

\* the keys of ids that join accepts (the assertion of line 134)
CodecEncode(p) ==
    /\ pc[p] = "idle"
    /\ JoinAssertId(loc[p].dst[2]) /\ JoinAssertId(loc[p].dst[3])
    /\ pc' = [pc EXCEPT ![p] = "encoded"]
    /\ loc' = [loc EXCEPT ![p].keys =
                 << Procs2KeyOf(loc[p].dst[1], loc[p].dst[2], loc[p].dst[3]),
                    WakeupKeyOf(loc[p].dst[1], loc[p].dst[3]) >>]
    /\ UNCHANGED <<store, ret, budget, logs>>

CodecDecode(p) ==
    /\ pc[p] = "encoded"
    /\ pc' = [pc EXCEPT ![p] = "decoded"]
    /\ ret' = [ret EXCEPT ![p] = Key2Procs(loc[p].keys[1])]
    /\ UNCHANGED <<store, loc, budget, logs>>

CodecNext == \E p \in SpecProcs : CodecEncode(p) \/ CodecDecode(p)

SpecCodec == CodecInit /\ [][CodecNext]_vars

\* C18 (key codec), as stated: the decoded pair key of (s, r) is (s, r);
\* the pair keys of two different triples (channel, s, r) differ; a wakeup
\* key equals no pair key, and the wakeup keys of two different ids, or of
\* two channels, differ.
C18_KeyCodec ==
    \A p, q \in SpecProcs :
        /\ pc[p] = "decoded" => ret[p] = <<loc[p].dst[2], loc[p].dst[3]>>
        /\ (pc[p] # "idle" /\ pc[q] # "idle") =>
              /\ loc[p].dst # loc[q].dst => loc[p].keys[1] # loc[q].keys[1]
              /\ loc[p].keys[2] # loc[q].keys[1]
              /\ (loc[p].dst[1] # loc[q].dst[1] \/ loc[p].dst[3] # loc[q].dst[3])
                     => loc[p].keys[2] # loc[q].keys[2]

\* ------------------------------------------------------------------------
\* The payloads in pair queue (s, r), in their order
Queued(s, r) ==
    [n \in 1..Len(Llist(Procs2Key(s, r))) |-> Loads(Llist(Procs2Key(s, r))[n])]

\* C19 (message conservation): without a flush, the payloads pushed to pair
\* queue (s, r), in the order of the pushes, are the payloads returned to r
\* tagged s, each once and in the order of the returns, followed by the
\* payloads still in the queue.
C19_Conservation ==
    \A s, r \in AllIds : Get(pushed, <<s, r>>) = Get(got, <<s, r>>) \o Queued(s, r)

\* C19 witness: a receive call of r has popped and discarded a marker and is
\* back at the head of its loop, after r was returned a payload of s, while
\* another payload for r is queued.
C19_Witness ==
    \E p \in Receivers :
        /\ pc[p] = "recv_loop" /\ loc[p].keys # << >>
        /\ \E s, t \in Ids : /\ Get(got, <<s, loc[p].pid>>) # << >>
                             /\ Queued(t, loc[p].pid) # << >>

\* ------------------------------------------------------------------------
\* The demo program (hw2_q1.py).  101 runs server_program and 102 runs
\* client_program, started together on an empty store.  quota counts the
\* calls each program has still to make; a call that raises ends the
\* process.
DemoInit ==
    /\ rset = Empty /\ rhash = Empty /\ rlist = Empty
    /\ pc = [p \in SpecProcs |-> "idle"]
    /\ loc = [p \in SpecProcs |-> NoLoc]
    /\ ret = [p \in SpecProcs |-> Ok]
    /\ quota = [server_open |-> 1, server_join |-> 1,
                server_send |-> DemoRounds, server_recv |-> DemoRounds,
                client_open |-> 1, client_join |-> 1,
                client_recv |-> DemoRounds, client_send |-> DemoRounds]
    /\ nmsg = 0
    /\ pushed = Empty
    /\ got = Empty

\* no call of p has raised
Alive(p) == ret[p][1] # "error"

\* server_program, lines 5, 8, 14 and 17
DemoServerOpen == Open(101, TRUE, "server_open")

DemoServerJoin ==
    /\ quota["server_open"] = 0 /\ Alive(101)
    /\ Join(101, 1, "server_join")

DemoServerSend ==
    /\ quota["server_join"] = 0 /\ Alive(101)
    /\ quota["server_send"] = quota["server_recv"]
    /\ SendToAll(101, DemoRounds - quota["server_send"] + 1, "server_send")

DemoServerRecv ==
    /\ quota["server_recv"] > quota["server_send"] /\ Alive(101)
    /\ RecvFromAny(101, TRUE, 0, "server_recv")

\* client_program, lines 22, 25, 29 and 33
DemoClientOpen == Open(102, FALSE, "client_open")

DemoClientJoin ==
    /\ quota["client_open"] = 0 /\ Alive(102)
    /\ Join(102, 2, "client_join")

DemoClientRecv ==
    /\ quota["client_join"] = 0 /\ Alive(102)
    /\ quota["client_recv"] = quota["client_send"]
    /\ RecvFromAny(102, TRUE, 0, "client_recv")

DemoClientAck ==
    /\ quota["client_send"] > quota["client_recv"] /\ Alive(102)
    /\ pc[102] = "idle" /\ ret[102][1] = "msg"
    /\ SendTo(102, <<ret[102][2]>>, "ack", "client_send")

\* The steps of p inside a call of the demo
DemoStep(p) ==
    \/ OpenRead(p)
    \/ OpenSadd(p)
    \/ OpenHset(p)
    \/ OpenSeed(p)
    \/ JoinSadd(p)
    \/ JoinCheck(p)
    \/ SendAllMembers(p)
    \/ SendAllPush(p)
    \/ SendAllWake(p)
    \/ SendCheck(p)
    \/ SendPush(p)
    \/ SendWake(p)
    \/ RecvLoop(p)
    \/ RecvBlpop(p)

DemoServer == DemoServerOpen \/ DemoServerJoin \/ DemoServerSend \/ DemoServerRecv
DemoClient == DemoClientOpen \/ DemoClientJoin \/ DemoClientRecv \/ DemoClientAck

DemoNext ==
    \/ DemoServerOpen
    \/ DemoServerJoin
    \/ DemoServerSend
    \/ DemoServerRecv
    \/ DemoClientOpen
    \/ DemoClientJoin
    \/ DemoClientRecv
    \/ DemoClientAck
    \/ \E p \in SpecProcs : DemoStep(p)

\* Scheduling: both processes were started and run, so each goes on with
\* its program unless it is blocked in a pop or has ended.
DemoFair ==
    /\ WF_vars(DemoServer \/ DemoStep(101))
    /\ WF_vars(DemoClient \/ DemoStep(102))

SpecDemo == DemoInit /\ [][DemoNext]_vars /\ DemoFair

\* The values the server sends
DemoValues == [n \in 1..DemoRounds |-> n]

\* C20 (demo program progress), as stated: no call of the server or of the
\* client fails, what the client has received is always the first values
\* 1, 2, ... tagged with sender 1, and in the end both have made all their
\* calls: the client has received all the values and the server an ack of
\* sender 2 for each.
C20_DemoProgress ==
    /\ [](Alive(101) /\ Alive(102))
    /\ [](\E n \in 0..DemoRounds : Get(got, <<1, 2>>) = SubSeq(DemoValues, 1, n))
    /\ <>(/\ pc[101] = "idle" /\ pc[102] = "idle"
          /\ \A k \in DOMAIN quota : quota[k] = 0
          /\ Get(got, <<1, 2>>) = DemoValues
          /\ Len(Get(got, <<2, 1>>)) = DemoRounds)

====
